---- MODULE Spec2Model ----
(***************************************************************************)
(* Complaint lifecycle engine of NFC_backend (services/complaintService):  *)
(* createComplaint, assignComplaint, assignToStaff, resolveComplaint,      *)
(* submitFeedback and finalizeComplaint, each run inside a MongoDB         *)
(* transaction (snapshot read at the first find, write conflict on a       *)
(* document written by another transaction since the snapshot, atomic      *)
(* visibility at commit), with the notification helper called inline.      *)
(***************************************************************************)
EXTENDS Integers, Sequences, FiniteSets, TLC

\* ------------------------------------------------------------------ bounds
\* committed writes in the whole store (and in the runs made long enough for a
\* complaint to be reopened and go round again), documents the collection can
\* hold (in the runs about a complaint's life, and in the runs about submissions),
\* and month changes of the clock
MaxWrites == 5
MaxWritesLong == 7
MaxComplaints == 1
MaxSubmitted == 2
MaxMonths == 1
\* calls made on one visitor request
MaxVisitorCalls == 4

\* the _ids the collection has room for
Cids == 1..(IF MaxSubmitted > MaxComplaints THEN MaxSubmitted ELSE MaxComplaints)
Reqs == {"r1", "r2"}

Null == "null"
NoDoc == [status |-> "none"]

\* ------------------------------------------------------------ user fixture
UserOrder == <<"res1", "dadm", "staff", "sadm", "pend", "staff2", "res2">>
Users == {UserOrder[i] : i \in 1..Len(UserOrder)}

\* the User collection the requests of one run see
UserFixture ==
    [u \in Users |->
        CASE u \in {"res1", "res2"}
                         -> [role |-> "resident",         status |-> "approved", department |-> Null]
          [] u = "dadm"  -> [role |-> "departmentAdmin",  status |-> "approved", department |-> "Electrical"]
          [] u \in {"staff", "staff2"}
                         -> [role |-> "maintenanceStaff", status |-> "approved", department |-> "Electrical"]
          [] u = "sadm"  -> [role |-> "superAdmin",       status |-> "approved", department |-> Null]
          [] OTHER       -> [role |-> "departmentAdmin",  status |-> "pending",  department |-> "Electrical"]]

\* the same users while the superAdmin's account is not approved (yet)
NoApprovedSuperAdmin == [UserFixture EXCEPT !["sadm"].status = "pending"]

\* ------------------------------------------------------------------ inputs
\* COMPLAINT_CATEGORIES of utils/constants: category -> its subcategories
COMPLAINT_CATEGORIES ==
    [k \in {"Electrical", "Civil", "Misc"} |->
        CASE k = "Electrical" ->
                <<"Lighting", "Power Outlets", "Fan/AC", "Electrical Appliances",
                  "Switchboard", "Wiring Issues", "UPS/Inverter", "Other Electrical">>
          [] k = "Civil" ->
                <<"Plumbing", "Drainage", "Wall/Ceiling", "Flooring", "Carpentry",
                  "Painting", "Doors/Windows", "Water Supply", "Other Civil">>
          [] OTHER ->
                <<"Housekeeping", "Garden/Landscape", "Security", "Parking", "Facilities",
                  "Pest Control", "Internet/Network", "Common Area", "Other">>]

\* the subcategories of a category, as a set
SubcategoriesOf(k) == {COMPLAINT_CATEGORIES[k][i] : i \in 1..Len(COMPLAINT_CATEGORIES[k])}

\* limits of the POST / validators and of the schema
DescriptionMaxLength == 1000
MaxImages == 2

Categories == {"Electrical", "Misc"}

\* a submission sends, with its category, a subcategory, a description (its
\* length) and images (their number): here the category's first subcategory
FirstSubcategory == [k \in Categories |-> {Head(COMPLAINT_CATEGORIES[k])}]
Ratings == 1..5
RatingsSent == 0..6
Comments == {"", "still broken"}
ResolutionNotes == {"fixed"}
Resolutions == {"repaired"}
AgencyIds == {"dadm", "staff", "pend", "res1", "ghost"}
StaffIds == {"staff", "res1"}

Ops == {"create", "assign", "assignStaff", "resolve", "feedback", "finalize"}

\* what the callers may send, and the principal acting on each route: every
\* input of the lists above, or the few that two overlapping requests need
OnePerRoute ==
    [op \in Ops |->
        CASE op \in {"create", "feedback"} -> {"res1"}
          [] op \in {"assign", "finalize"} -> {"sadm"}
          [] OTHER -> {"dadm"}]

FullInputs ==
    [categories |-> Categories, subcategories |-> FirstSubcategory,
     descriptions |-> {20}, images |-> {0},
     ratings |-> RatingsSent, comments |-> Comments,
     agencyIds |-> AgencyIds, staffIds |-> StaffIds, principals |-> OnePerRoute,
     gateway |-> BOOLEAN, writes |-> MaxWrites, cids |-> 1..MaxComplaints]

ConcInputs ==
    [categories |-> {"Electrical"}, subcategories |-> FirstSubcategory,
     descriptions |-> {20}, images |-> {0},
     ratings |-> {2, 3}, comments |-> {""},
     agencyIds |-> {"dadm", "staff"}, staffIds |-> {"staff"},
     principals |-> OnePerRoute, gateway |-> {TRUE}, writes |-> MaxWrites,
     cids |-> 1..MaxComplaints]

\* the routes with assignToStaff open to the superAdmin as well
RouteRolesStaffBySuperAdmin(op) ==
    CASE op = "create"      -> {"resident", "maintenanceStaff", "departmentAdmin", "superAdmin"}
      [] op = "assign"      -> {"superAdmin", "departmentAdmin"}
      [] op = "assignStaff" -> {"departmentAdmin", "superAdmin"}
      [] op = "resolve"     -> {"maintenanceStaff", "departmentAdmin"}
      [] op = "feedback"    -> {"resident"}
      [] op = "finalize"    -> {"superAdmin"}

\* checkRole(...) of the routes: the principals each route lets through
RouteRoles(op) ==
    CASE op = "create"      -> {"resident", "maintenanceStaff", "departmentAdmin", "superAdmin"}
      [] op = "assign"      -> {"superAdmin", "departmentAdmin"}
      [] op = "assignStaff" -> {"departmentAdmin"}
      [] op = "resolve"     -> {"maintenanceStaff", "departmentAdmin"}
      [] op = "feedback"    -> {"resident"}
      [] op = "finalize"    -> {"superAdmin"}

\* ------------------------------------------------------------------- state
VARIABLES
    db,     \* committed Complaint collection: _id -> document (NoDoc when absent)
    ver,    \* per document: number of committed writes (the storage engine's version)
    wlock,  \* per document: the transaction holding an uncommitted write, or Null
    req,    \* per request: the handler's position and locals
    users,  \* the User collection: _id -> document
    now,    \* the server's clock: calendar months elapsed since the first state
    broadcast,  \* the Broadcast document under study
    fanouts,    \* how many times the notification loop of sendBroadcast has run
    sender,     \* per caller of sendBroadcast: its position and its error
    poll,       \* the Poll document under study
    responses,  \* the PollResponse collection, in insertion order
    notified,   \* how many times notifyUsersAboutPoll has run
    call,       \* per call of submitPollResponse: its position and locals
    visitor,    \* the Visitor document under study
    visits      \* the calls made on the visitor request, with their outcomes

complaints == <<db, ver, wlock, req, users, now>>

broadcasts == <<broadcast, fanouts, sender>>

polls == <<poll, responses, notified, call>>

visitors == <<visitor, visits>>

services == <<broadcasts, polls, visitors>>

vars == <<complaints, services>>

\* ---------------------------------------------------- broadcast documents
\* the callers of sendBroadcast: the send route (twice), updateBroadcast, and
\* the scheduler's sweep
Senders == {"manual", "manual2", "update", "sweep"}

\* Broadcast.create in createBroadcast; scheduledAt is -1 when none was given
NewBroadcast(scheduledAt) ==
    [status      |-> IF scheduledAt # -1 THEN "scheduled" ELSE "draft",
     scheduledAt |-> scheduledAt,
     isSent      |-> FALSE]

\* -------------------------------------------------- polls and responses
PollOptions == {"o1", "o2"}

\* the calls of submitPollResponse: two by one user, one by another
Calls == {"c1", "c2", "c3"}

CallUser(c) == IF c = "c3" THEN "res2" ELSE "res1"

\* Poll.create in createPoll: every option starts with count 0
NewPoll(status, endDate, allowMultipleSelections) ==
    [status                  |-> status,
     endDate                 |-> endDate,
     allowMultipleSelections |-> allowMultipleSelections,
     options                 |-> [o \in PollOptions |-> 0],
     totalResponses          |-> 0]

NoPoll == NewPoll("none", 0, FALSE)

IdleCall == [pc |-> "idle", poll |-> NoPoll, selectedOptions |-> <<>>, err |-> Null]

\* --------------------------------------------------------- visitor requests
\* Visitor.create in createVisitorRequest
NewVisitor == [status |-> "pending", requestedBy |-> "res1"]

InitServices ==
    /\ broadcast = NewBroadcast(-1)
    /\ fanouts = 0
    /\ sender = [p \in Senders |-> [pc |-> "idle", err |-> Null]]
    /\ poll = NoPoll
    /\ responses = <<>>
    /\ notified = 0
    /\ call = [c \in Calls |-> IdleCall]
    /\ visitor = NewVisitor
    /\ visits = <<>>

UserDoc(u) == users[u]

\* User.find(filter): the matching users in natural order
UserFind(P(_)) == SelectSeq(UserOrder, P)

\* protect: the account of the token must exist and be approved
Protect(u) ==
    IF u \notin Users THEN 401
    ELSE IF UserDoc(u).status # "approved" THEN 403
    ELSE 200

\* checkRole(...roles): a principal with none of the roles is answered 403 and the
\* controller is not called
CheckRole(u, op) == IF UserDoc(u).role \in RouteRoles(op) THEN 200 ELSE 403

\* the principals a route lets through
Actors(in, op) ==
    {u \in in.principals[op] : Protect(u) = 200 /\ CheckRole(u, op) = 200}

NoArgs ==
    [userId |-> Null, category |-> Null, subcategory |-> Null, description |-> 0,
     images |-> 0, agencyId |-> Null, staffId |-> Null,
     notes |-> Null, rating |-> 0, comment |-> Null]

\* query string of the read routes (Null: the parameter is absent)
NoQuery == [id |-> 0, userId |-> Null, category |-> Null, status |-> Null]

NoStats ==
    [total |-> 0, pending |-> 0, assigned |-> 0, resolved |-> 0, closed |-> 0,
     escalated |-> 0, finalResolution |-> 0, avgRating |-> <<0, 1>>]

\* what a read route answered: the HTTP code and the body (complaints by _id)
NoResp == [code |-> 0, by |-> Null, query |-> NoQuery, docs |-> {}, stats |-> NoStats,
           dist |-> {}]

\* pc: "idle" (never used), "new" (request accepted, transaction started, nothing
\* read yet), "run" (document read and changed locally, `todo` left), "done"
IdleReq ==
    [pc |-> "idle", op |-> Null, cid |-> 0, args |-> NoArgs, issuedVer |-> 0,
     local |-> NoDoc, snapVer |-> 0, todo |-> <<>>, sent |-> <<>>,
     gwFailed |-> FALSE, committed |-> FALSE, result |-> Null, resp |-> NoResp]

Init ==
    /\ db = [c \in Cids |-> NoDoc]
    /\ ver = [c \in Cids |-> 0]
    /\ wlock = [c \in Cids |-> Null]
    /\ req = [r \in Reqs |-> IdleReq]
    /\ users = UserFixture
    /\ now = 0
    /\ InitServices

\* --------------------------------------------------------------- documents
EmptyEscalation ==
    [escalatedAt |-> FALSE, reason |-> Null, appellateAuthority |-> Null,
     finalResolution |-> Null, finalResolvedAt |-> FALSE]

\* feedback not given yet
NoFeedback == [rating |-> 0, comment |-> Null]

HistEntry(status, by, notes) == [status |-> status, updatedBy |-> by, notes |-> notes]

\* complaintId not assigned yet
NoComplaintId == <<>>

\* new Complaint({...complaintData, userId, status: "pending", history: [...]})
\* (description: its length, images: their number, createdAt: the month, -1 before
\* the first save)
NewComplaint(user, complaintData) ==
    [status |-> "pending", complaintId |-> NoComplaintId, createdAt |-> -1,
     userId |-> user, category |-> complaintData.category,
     subcategory |-> complaintData.subcategory,
     description |-> complaintData.description, images |-> complaintData.images,
     assignedAgency |-> Null, assignedStaff |-> Null,
     assignedAt |-> FALSE, resolvedAt |-> FALSE, closedAt |-> FALSE,
     resolutionNotes |-> Null, feedback |-> NoFeedback, escalation |-> EmptyEscalation,
     history |-> <<HistEntry("pending", user, <<"Complaint submitted">>)>>]

Exists(c) == db[c] # NoDoc

Free(r) == req[r].pc \in {"idle", "done"}

\* _ids taken by stored documents or by documents being created
UsedCids == {c \in Cids : Exists(c)} \cup
            {req[r].cid : r \in {x \in Reqs : req[x].pc \in {"new", "run"}
                                               /\ req[x].op = "create"}}

Requested(r, op) == req[r].pc = "new" /\ req[r].op = op

HookStep == [t |-> "hook", to |-> Null]
SaveStep == [t |-> "save", to |-> Null]
CommitStep == [t |-> "commit", to |-> Null]
NotifyStep(u) == [t |-> "notify", to |-> u]

RECURSIVE SumVer(_)
SumVer(n) == IF n = 0 THEN 0 ELSE ver[n] + SumVer(n - 1)

\* committed writes so far
TotalWrites == SumVer(Cardinality(Cids))

\* what is left of a request once its handler returned or threw
Finished(q, msg) ==
    [IdleReq EXCEPT !.pc = "done", !.op = q.op, !.cid = q.cid, !.sent = q.sent,
                    !.gwFailed = q.gwFailed, !.committed = (msg = "ok"), !.result = msg]

\* the handler threw before writing: catch -> abortTransaction -> rethrow
Fail(r, msg) ==
    /\ req' = [req EXCEPT ![r] = Finished(req[r], msg)]
    /\ UNCHANGED <<db, ver, wlock, users, now, services>>

\* the handler read its document, mutated the local copy and goes on to `steps`
Start(r, in, doc, steps) ==
    /\ TotalWrites < in.writes
    /\ req' = [req EXCEPT ![r].pc = "run", ![r].args = NoArgs, ![r].local = doc,
                          ![r].snapVer = ver[req[r].cid], ![r].todo = steps]
    /\ UNCHANGED <<db, ver, wlock, users, now, services>>

\* ---------------------------------------------------------- createComplaint
IsApprovedSuperAdmin(u) ==
    UserDoc(u).role = "superAdmin" /\ UserDoc(u).status = "approved"

\* the audience taken without status: "approved"
MaintenanceAgenciesAnyStatus(category) ==
    IF category = "Misc"
    THEN UserFind(LAMBDA u : UserDoc(u).role = "superAdmin")
    ELSE UserFind(LAMBDA u : /\ UserDoc(u).role = "departmentAdmin"
                             /\ UserDoc(u).department = category)

MaintenanceAgencies(category) ==
    IF category = "Misc"
    THEN UserFind(IsApprovedSuperAdmin)
    ELSE UserFind(LAMBDA u : /\ UserDoc(u).role = "departmentAdmin"
                             /\ UserDoc(u).department = category
                             /\ UserDoc(u).status = "approved")

NotifyAll(us) == [i \in 1..Len(us) |-> NotifyStep(us[i])]

\* the validators of POST /: category isIn, subcategory notEmpty, description
\* notEmpty and isLength({ max }), images optional isArray({ max })
\* (resourceId notEmpty: the requests of the model always carry one)
ValidationResult(a) ==
    /\ a.category \in {"Electrical", "Civil", "Misc"}
    /\ a.subcategory # ""
    /\ a.description > 0 /\ a.description <= DescriptionMaxLength
    /\ a.images <= MaxImages

\* the schema's validators, run by save(): required paths, the category enum and
\* the description's maxlength
SchemaValidates(doc) ==
    /\ doc.complaintId # NoComplaintId
    /\ doc.category \in {"Electrical", "Civil", "Misc"}
    /\ doc.subcategory # ""
    /\ doc.description > 0 /\ doc.description <= DescriptionMaxLength

ValidationErrors ==
    {"Validation failed", "Maximum 2 images allowed per complaint"}

SchemaError == "Complaint validation failed: complaintId: Path complaintId is required."

\* controller and service. save() validates the document in a hook of Mongoose's
\* own: when that hook runs ahead of the schema's pre("save") (the order Mongoose
\* documents) complaintId is still unset and the save is refused; when the
\* schema's hook runs first (the order the schema was written for) the save goes
\* on. Both orders are kept.
CreateComplaint(r, in) ==
    /\ Requested(r, "create")
    /\ LET a == req[r].args
           doc == NewComplaint(a.userId, a)
       IN  IF ~ValidationResult(a) THEN Fail(r, "Validation failed")
           ELSE IF a.images > MaxImages
           THEN Fail(r, "Maximum 2 images allowed per complaint")
           ELSE \E validatesFirst \in BOOLEAN :
                IF validatesFirst /\ ~SchemaValidates(doc) THEN Fail(r, SchemaError)
                ELSE Start(r, in, doc,
                           <<HookStep, SaveStep>> \o NotifyAll(MaintenanceAgencies(a.category))
                           \o <<CommitStep>>)

\* ---------------------------------------------------------- assignComplaint
\* the agency lookup forgetting status: "approved"
IsAgencyAnyStatus(u) ==
    /\ u \in Users
    /\ UserDoc(u).role \in {"departmentAdmin", "maintenanceStaff"}

IsAgency(u) ==
    /\ u \in Users
    /\ UserDoc(u).role \in {"departmentAdmin", "maintenanceStaff"}
    /\ UserDoc(u).status = "approved"

AssignedDoc(doc, agencyId, userId) ==
    [doc EXCEPT !.assignedAgency = agencyId,
                !.status = "assigned",
                !.assignedAt = TRUE,
                !.history = Append(@, HistEntry("assigned", userId, <<"Assigned to", agencyId>>))]

AssignComplaint(r, in) ==
    /\ Requested(r, "assign")
    /\ LET c == req[r].cid
           a == req[r].args
       IN  IF ~Exists(c) THEN Fail(r, "Complaint not found")
           ELSE IF ~IsAgency(a.agencyId) THEN Fail(r, "Maintenance agency not found")
           ELSE Start(r, in, AssignedDoc(db[c], a.agencyId, a.userId),
                      <<SaveStep, NotifyStep(a.agencyId), NotifyStep(db[c].userId),
                        CommitStep>>)

\* ------------------------------------------------------------ assignToStaff
IsStaff(u) ==
    /\ u \in Users
    /\ UserDoc(u).role = "maintenanceStaff"
    /\ UserDoc(u).status = "approved"

\* assignToStaff marking the complaint assigned as assignComplaint does
StaffAssignedDocSetsStatus(doc, staffId, agencyId) ==
    [doc EXCEPT !.assignedStaff = staffId,
                !.status = "assigned",
                !.history = Append(@, HistEntry("assigned", agencyId,
                                                <<"Assigned to staff", staffId>>))]

\* assignToStaff forgetting its history.push
StaffAssignedDocNoPush(doc, staffId, agencyId) ==
    [doc EXCEPT !.assignedStaff = staffId]

\* assignToStaff writing "assigned" into its history entry whatever the status
StaffAssignedDocEntryAssigned(doc, staffId, agencyId) ==
    [doc EXCEPT !.assignedStaff = staffId,
                !.history = Append(@, HistEntry("assigned", agencyId,
                                                <<"Assigned to staff", staffId>>))]

StaffAssignedDoc(doc, staffId, agencyId) ==
    [doc EXCEPT !.assignedStaff = staffId,
                !.history = Append(@, HistEntry(doc.status, agencyId,
                                                <<"Assigned to staff", staffId>>))]

AssignToStaff(r, in) ==
    /\ Requested(r, "assignStaff")
    /\ LET c == req[r].cid
           a == req[r].args
       IN  IF ~Exists(c) THEN Fail(r, "Complaint not found")
           ELSE IF ~IsStaff(a.staffId) THEN Fail(r, "Maintenance staff not found")
           ELSE Start(r, in, StaffAssignedDoc(db[c], a.staffId, a.userId),
                      <<SaveStep, NotifyStep(a.staffId), CommitStep>>)

\* --------------------------------------------------------- resolveComplaint
ResolvedDoc(doc, resolutionNotes, userId) ==
    [doc EXCEPT !.status = "resolved",
                !.resolvedAt = TRUE,
                !.resolutionNotes = resolutionNotes,
                !.history = Append(@, HistEntry("resolved", userId, <<resolutionNotes>>))]

\* resolveComplaint without its status check
ResolveComplaintNoCheck(r, in) ==
    /\ Requested(r, "resolve")
    /\ LET c == req[r].cid
           a == req[r].args
       IN  IF ~Exists(c) THEN Fail(r, "Complaint not found")
           ELSE Start(r, in, ResolvedDoc(db[c], a.notes, a.userId),
                      <<SaveStep, NotifyStep(db[c].userId), CommitStep>>)

ResolveComplaint(r, in) ==
    /\ Requested(r, "resolve")
    /\ LET c == req[r].cid
           a == req[r].args
       IN  IF ~Exists(c) THEN Fail(r, "Complaint not found")
           ELSE IF db[c].status # "assigned"
           THEN Fail(r, "Complaint must be in assigned status to be resolved")
           ELSE Start(r, in, ResolvedDoc(db[c], a.notes, a.userId),
                      <<SaveStep, NotifyStep(db[c].userId), CommitStep>>)

\* ----------------------------------------------------------- submitFeedback
\* comment || "None"
CommentOrNone(comment) == IF comment = "" THEN "None" ELSE comment

\* the threshold off by one: rating > 3
SatisfiedAbove3(rating) == rating > 3

\* rating >= 3
Satisfied(rating) == rating >= 3

ClosedDoc(doc, rating, comment, userId) ==
    [doc EXCEPT !.feedback = [rating |-> rating, comment |-> comment],
                !.status = "closed",
                !.closedAt = TRUE,
                !.history = Append(@, HistEntry("closed", userId,
                                <<"User satisfied", rating, CommentOrNone(comment)>>))]

\* User.findOne({ role: "superAdmin", status: "approved" })
AppellateAuthority ==
    LET found == UserFind(IsApprovedSuperAdmin) IN
    IF found = <<>> THEN Null ELSE Head(found)

\* the escalation recording the comment as it came, without the default text
EscalatedDocNoDefault(doc, rating, comment, userId) ==
    [doc EXCEPT !.feedback = [rating |-> rating, comment |-> comment],
                !.status = "escalated",
                !.escalation = [EmptyEscalation EXCEPT
                    !.escalatedAt = TRUE,
                    !.reason = comment,
                    !.appellateAuthority = AppellateAuthority],
                !.history = Append(@, HistEntry("escalated", userId,
                                <<"User not satisfied", rating, CommentOrNone(comment)>>))]

EscalatedDoc(doc, rating, comment, userId) ==
    [doc EXCEPT !.feedback = [rating |-> rating, comment |-> comment],
                !.status = "escalated",
                !.escalation = [EmptyEscalation EXCEPT
                    !.escalatedAt = TRUE,
                    !.reason = IF comment = "" THEN "User not satisfied with resolution"
                                               ELSE comment,
                    !.appellateAuthority = AppellateAuthority],
                !.history = Append(@, HistEntry("escalated", userId,
                                <<"User not satisfied", rating, CommentOrNone(comment)>>))]

FeedbackDoc(doc, rating, comment, userId) ==
    IF Satisfied(rating) THEN ClosedDoc(doc, rating, comment, userId)
                         ELSE EscalatedDoc(doc, rating, comment, userId)

FeedbackSteps(doc, rating) ==
    IF Satisfied(rating)
    THEN <<NotifyStep(doc.assignedAgency), SaveStep, CommitStep>>
    ELSE (IF AppellateAuthority # Null THEN <<NotifyStep(AppellateAuthority)>> ELSE <<>>)
         \o <<NotifyStep(doc.assignedAgency), SaveStep, CommitStep>>

\* the route's isInt({ min: 1, max: 5 }) and the controller's
\* rating < 1 || rating > 5: the request is answered 400 before the service runs
ValidRating(rating) == rating \in Ratings

\* submitFeedback without its status check
SubmitFeedbackNoCheck(r, in) ==
    /\ Requested(r, "feedback")
    /\ LET c == req[r].cid
           a == req[r].args
       IN  IF ~ValidRating(a.rating) THEN Fail(r, "Rating must be between 1 and 5")
           ELSE IF ~Exists(c) THEN Fail(r, "Complaint not found")
           ELSE Start(r, in, FeedbackDoc(db[c], a.rating, a.comment, a.userId),
                      FeedbackSteps(db[c], a.rating))

SubmitFeedback(r, in) ==
    /\ Requested(r, "feedback")
    /\ LET c == req[r].cid
           a == req[r].args
       IN  IF ~ValidRating(a.rating) THEN Fail(r, "Rating must be between 1 and 5")
           ELSE IF ~Exists(c) THEN Fail(r, "Complaint not found")
           ELSE IF db[c].status # "resolved"
           THEN Fail(r, "Complaint must be resolved before submitting feedback")
           ELSE Start(r, in, FeedbackDoc(db[c], a.rating, a.comment, a.userId),
                      FeedbackSteps(db[c], a.rating))

\* -------------------------------------------------------- finalizeComplaint
\* finalizeComplaint forgetting closedAt
FinalizedDocNoClosedAt(doc, resolution, authorityId) ==
    [doc EXCEPT !.status = "finalResolution",
                !.escalation.finalResolution = resolution,
                !.escalation.finalResolvedAt = TRUE,
                !.history = Append(@, HistEntry("finalResolution", authorityId,
                                                <<"Final resolution", resolution>>))]

FinalizedDoc(doc, resolution, authorityId) ==
    [doc EXCEPT !.status = "finalResolution",
                !.escalation.finalResolution = resolution,
                !.escalation.finalResolvedAt = TRUE,
                !.closedAt = TRUE,
                !.history = Append(@, HistEntry("finalResolution", authorityId,
                                                <<"Final resolution", resolution>>))]

\* finalizeComplaint without its status check
FinalizeComplaintNoCheck(r, in) ==
    /\ Requested(r, "finalize")
    /\ LET c == req[r].cid
           a == req[r].args
       IN  IF ~Exists(c) THEN Fail(r, "Complaint not found")
           ELSE Start(r, in, FinalizedDoc(db[c], a.notes, a.userId),
                      <<SaveStep, NotifyStep(db[c].userId), NotifyStep(db[c].assignedAgency),
                        CommitStep>>)

FinalizeComplaint(r, in) ==
    /\ Requested(r, "finalize")
    /\ LET c == req[r].cid
           a == req[r].args
       IN  IF ~Exists(c) THEN Fail(r, "Complaint not found")
           ELSE IF db[c].status # "escalated"
           THEN Fail(r, "Only escalated complaints can receive final resolution")
           ELSE Start(r, in, FinalizedDoc(db[c], a.notes, a.userId),
                      <<SaveStep, NotifyStep(db[c].userId), NotifyStep(db[c].assignedAgency),
                        CommitStep>>)

\* ------------------------------------------------- transaction steps
NextStep(r) == Head(req[r].todo)

Running(r, t) == req[r].pc = "run" /\ req[r].todo # <<>> /\ NextStep(r).t = t

\* the clock read by `new Date()`: the first state is in December 2025
Clock0 == [year |-> 2025, month |-> 11]

\* date.getFullYear(), date.getMonth() (0-based)
GetFullYear(t) == Clock0.year + ((Clock0.month + t) \div 12)
GetMonth(t) == (Clock0.month + t) % 12

\* String(n): the decimal digits of n
RECURSIVE Digits(_)
Digits(n) == IF n < 10 THEN <<n>> ELSE Digits(n \div 10) \o <<n % 10>>

\* s.padStart(len, "0")
RECURSIVE PadStart(_, _)
PadStart(s, len) == IF Len(s) >= len THEN s ELSE PadStart(<<0>> \o s, len)

\* s.slice(-2)
SliceLast2(s) == IF Len(s) <= 2 THEN s ELSE SubSeq(s, Len(s) - 1, Len(s))

\* `CMP-${year}-${month}-${String(count + 1).padStart(4, "0")}`
FormatComplaintId(t, count) ==
    <<"CMP", SliceLast2(Digits(GetFullYear(t))), PadStart(Digits(GetMonth(t) + 1), 2),
      PadStart(Digits(count + 1), 4)>>

\* a count that forgets the createdAt range: every committed complaint
CountAllMonths(t) == Cardinality({c \in Cids : Exists(c)})

\* committed complaints created in the month of t, as countDocuments (run outside
\* the session) sees them
MonthCount(t) ==
    Cardinality({c \in Cids : Exists(c) /\ db[c].createdAt >= t /\ db[c].createdAt < t + 1})

\* the hooks run by save(): timestamps set createdAt on a new document, and the
\* schema's pre("save") gives it the month's count + 1 as its sequence number
PreSave(doc, isNew) ==
    IF isNew
    THEN [doc EXCEPT !.createdAt = now, !.complaintId = FormatComplaintId(now, MonthCount(now))]
    ELSE doc

\* the hook of a new document awaits countDocuments before the insert is sent
PreSaveHook(r) ==
    /\ Running(r, "hook")
    /\ req' = [req EXCEPT ![r].todo = Tail(@), ![r].local = PreSave(@, req[r].op = "create")]
    /\ UNCHANGED <<db, ver, wlock, users, now, services>>

\* the write is refused when the document changed after the snapshot or another
\* transaction holds an uncommitted write on it or on its key of the unique index
WriteConflict(r) ==
    LET c == req[r].cid IN
    \/ ver[c] # req[r].snapVer
    \/ wlock[c] \notin {Null, r}
    \/ \E q \in Reqs \ {r} :
            /\ req[q].pc = "run" /\ wlock[req[q].cid] = q
            /\ req[q].local.complaintId = req[r].local.complaintId

\* a collection without the unique index
NoUniqueIndex(r) == FALSE

\* complaintId: { unique: true }: another stored document has the identifier
DuplicateKey(r) ==
    \E c \in Cids \ {req[r].cid} :
        Exists(c) /\ db[c].complaintId = req[r].local.complaintId

DuplicateKeyError == "E11000 duplicate key error"

\* complaint.save() outside the transaction: the write is stored at once
SaveNoSession(r) ==
    /\ Running(r, "save")
    /\ LET c == req[r].cid IN
        /\ db' = [db EXCEPT ![c] = req[r].local]
        /\ req' = [req EXCEPT ![r].todo = Tail(@)]
        /\ UNCHANGED <<ver, wlock, users, now, services>>

\* complaint.save({ session }), once its hooks have run
Save(r) ==
    /\ Running(r, "save")
    /\ LET c == req[r].cid IN
        IF WriteConflict(r)
        THEN /\ req' = [req EXCEPT ![r] = Finished(req[r], "WriteConflict")]
             /\ UNCHANGED <<db, ver, wlock, users, now, services>>
        ELSE IF DuplicateKey(r)
        THEN /\ req' = [req EXCEPT ![r] = Finished(req[r], DuplicateKeyError)]
             /\ UNCHANGED <<db, ver, wlock, users, now, services>>
        ELSE /\ wlock' = [wlock EXCEPT ![c] = r]
             /\ req' = [req EXCEPT ![r].todo = Tail(@)]
             /\ UNCHANGED <<db, ver, users, now, services>>

\* sendNotification: logs and returns true, or catches its error and returns false;
\* the handlers ignore the returned value
\* a helper that lets its error out instead of catching it
SendNotificationRethrow(ok) == IF ok THEN "true" ELSE "throw"

SendNotification(ok) == IF ok THEN "true" ELSE "false"

Notify(r, in) ==
    /\ Running(r, "notify")
    /\ \E ok \in in.gateway :
        LET ret == SendNotification(ok) IN
        IF ret = "throw"
        THEN /\ req' = [req EXCEPT ![r] =
                        Finished([req[r] EXCEPT !.sent = Append(@, NextStep(r).to),
                                                !.gwFailed = TRUE], "NotificationError")]
             /\ wlock' = [c \in Cids |-> IF wlock[c] = r THEN Null ELSE wlock[c]]
             /\ UNCHANGED <<db, ver, users, now, services>>
        ELSE /\ req' = [req EXCEPT ![r].todo = Tail(@),
                                   ![r].sent = Append(@, NextStep(r).to),
                                   ![r].gwFailed = @ \/ (ret = "false")]
             /\ UNCHANGED <<db, ver, wlock, users, now, services>>

\* session.commitTransaction(); return complaint
Commit(r) ==
    /\ Running(r, "commit")
    /\ LET c == req[r].cid IN
        /\ db' = [db EXCEPT ![c] = req[r].local]
        /\ ver' = [ver EXCEPT ![c] = @ + 1]
        /\ wlock' = [wlock EXCEPT ![c] = Null]
        /\ req' = [req EXCEPT ![r] = Finished(req[r], "ok")]
        /\ UNCHANGED <<users, now, services>>

\* ------------------------------------------------------------- read routes
\* (the resourceId and date filters only narrow a result further; the complaints
\* of the model carry neither field, so the model answers as if they were absent)
NoFilters == [userId |-> Null, category |-> Null, status |-> Null, assignedStaff |-> Null]

\* mongoose.Types.ObjectId(x), called without `new`: the id, or an exception when
\* x is no ObjectId or the driver's ObjectId is a class
ObjectId(x, callable) == IF callable /\ x \in Users THEN x ELSE "throw"

\* a controller that takes the userId a resident sent instead of the resident's own
GetComplaintsFiltersAsAsked(user, q) ==
    [NoFilters EXCEPT !.userId = q.userId, !.category = q.category, !.status = q.status]

\* the filters the controller's getComplaints hands to the service
GetComplaintsFilters(user, q) ==
    LET role == UserDoc(user).role
        scoped ==
            CASE role = "resident" -> [NoFilters EXCEPT !.userId = user]
              [] role = "departmentAdmin" ->
                    [NoFilters EXCEPT !.userId = q.userId,
                                      !.category = UserDoc(user).department]
              [] role = "maintenanceStaff" -> [NoFilters EXCEPT !.assignedStaff = user]
              [] OTHER -> [NoFilters EXCEPT !.userId = q.userId, !.category = q.category]
    IN  [scoped EXCEPT !.status = q.status]

\* Model.find(query): a key that is Null is not part of the query
Find(query) ==
    {c \in Cids :
        /\ Exists(c)
        /\ query.userId # Null => db[c].userId = query.userId
        /\ query.category # Null => db[c].category = query.category
        /\ query.status # Null => db[c].status = query.status
        /\ query.assignedStaff # Null => db[c].assignedStaff = query.assignedStaff}

\* the service's getComplaints: the query is built from userId, category and status
GetComplaints(filters, callable) ==
    IF filters.userId # Null /\ ObjectId(filters.userId, callable) = "throw"
    THEN [NoResp EXCEPT !.code = 500]
    ELSE [NoResp EXCEPT !.code = 200,
                        !.docs = Find([NoFilters EXCEPT !.userId = filters.userId,
                                                        !.category = filters.category,
                                                        !.status = filters.status])]

\* the answer of a read route, kept as the request's outcome
Answered(op, user, q, resp) ==
    [IdleReq EXCEPT !.pc = "done", !.op = op, !.cid = q.id,
                    !.result = IF resp.code = 200 THEN "ok" ELSE "error",
                    !.resp = [resp EXCEPT !.by = user, !.query = q]]

\* (a read leaves the store alone, so the reads that follow a read answer what
\* they would have answered in its place: reads are taken after a write)
Answer(r, op, user, q, resp) ==
    /\ Free(r)
    /\ req[r].resp = NoResp
    /\ req' = [req EXCEPT ![r] = Answered(op, user, q, resp)]
    /\ UNCHANGED <<db, ver, wlock, users, now, services>>

QueriesOf(in) ==
    {[NoQuery EXCEPT !.userId = u, !.category = k, !.status = st] :
        u \in in.qUserIds, k \in in.qCategories, st \in in.qStatuses}

\* GET /api/complaints
ListComplaints(r, in) ==
    \E user \in in.readers, q \in QueriesOf(in), callable \in in.callable :
        Answer(r, "list", user, q, GetComplaints(GetComplaintsFilters(user, q), callable))

\* the filters the controller's getComplaintStats hands to the service
GetComplaintStatsFilters(user, q) ==
    LET role == UserDoc(user).role IN
    CASE role = "departmentAdmin" ->
            [NoFilters EXCEPT !.category = UserDoc(user).department, !.userId = q.userId]
      [] role = "resident" -> [NoFilters EXCEPT !.userId = user]
      [] OTHER -> [NoFilters EXCEPT !.userId = q.userId, !.category = q.category]

\* a count that takes closed complaints for resolved ones as well
CountStatusMixed(S, st) ==
    Cardinality({c \in S : db[c].status = st
                            \/ (st = "resolved" /\ db[c].status = "closed")})

CountStatus(S, st) == Cardinality({c \in S : db[c].status = st})

RECURSIVE SumRating(_)
SumRating(S) ==
    IF S = {} THEN 0
    ELSE LET c == CHOOSE x \in S : TRUE IN db[c].feedback.rating + SumRating(S \ {c})

\* { $avg: "$feedback.rating" } as <<sum, count>> over the complaints that carry a
\* rating (count 0: null)
AvgRating(S) ==
    LET rated == {c \in S : db[c].feedback # NoFeedback} IN
    <<SumRating(rated), Cardinality(rated)>>

\* the service's getComplaintStats: $match on userId and category, one $group
GetComplaintStats(filters, callable) ==
    IF filters.userId # Null /\ ObjectId(filters.userId, callable) = "throw"
    THEN [NoResp EXCEPT !.code = 500]
    ELSE LET S == Find([NoFilters EXCEPT !.userId = filters.userId,
                                         !.category = filters.category])
         IN  [NoResp EXCEPT
                !.code = 200,
                !.stats = IF S = {} THEN NoStats
                          ELSE [total |-> Cardinality(S),
                                pending |-> CountStatus(S, "pending"),
                                assigned |-> CountStatus(S, "assigned"),
                                resolved |-> CountStatus(S, "resolved"),
                                closed |-> CountStatus(S, "closed"),
                                escalated |-> CountStatus(S, "escalated"),
                                finalResolution |-> CountStatus(S, "finalResolution"),
                                avgRating |-> AvgRating(S)]]

\* GET /api/complaints/stats
Stats(r, in) ==
    \E user \in in.readers, q \in QueriesOf(in), callable \in in.callable :
        /\ q.status = Null
        /\ Answer(r, "stats", user, q,
                  GetComplaintStats(GetComplaintStatsFilters(user, q), callable))

\* the filters the controller's getCategoryDistribution hands to the service
GetCategoryDistributionFilters(user, q) ==
    IF UserDoc(user).role = "resident" THEN [NoFilters EXCEPT !.userId = user]
                                       ELSE [NoFilters EXCEPT !.userId = q.userId]

\* the service's getCategoryDistribution: $match on userId, $group by category
GetCategoryDistribution(filters, callable) ==
    IF filters.userId # Null /\ ObjectId(filters.userId, callable) = "throw"
    THEN [NoResp EXCEPT !.code = 500]
    ELSE LET S == Find([NoFilters EXCEPT !.userId = filters.userId]) IN
         [NoResp EXCEPT
            !.code = 200,
            !.dist = {[category |-> k,
                       count |-> Cardinality({c \in S : db[c].category = k})] :
                         k \in {db[c].category : c \in S}}]

\* GET /api/complaints/category-distribution
CategoryDistribution(r, in) ==
    \E user \in in.readers, q \in QueriesOf(in), callable \in in.callable :
        /\ q.status = Null /\ q.category = Null
        /\ Answer(r, "dist", user, q,
                  GetCategoryDistribution(GetCategoryDistributionFilters(user, q), callable))

\* .populate(path): the reference replaced by the user's document (the users of
\* the model are never removed, so a reference always finds its document)
Populate(ref) == [populated |-> ref # Null, _id |-> ref]

\* id.toString() of an ObjectId: its hex string
IdToString(id) == [text |-> "hex", of |-> id]

\* doc.toString() of a populated document: the text inspect() gives for it
DocToString(doc) == [text |-> "inspect", of |-> doc._id]

\* the service's getComplaintById: the populated complaint, or NoDoc (it throws
\* "Complaint not found")
GetComplaintById(id) ==
    IF id \in Cids /\ Exists(id)
    THEN [db[id] EXCEPT !.userId = Populate(@), !.assignedAgency = Populate(@),
                        !.assignedStaff = Populate(@)]
    ELSE NoDoc

\* the authorization check forgetting the maintenance staff
NotAuthorizedStaffForgotten(user, complaint) ==
    LET u == UserDoc(user) IN
    \/ u.role = "resident" /\ DocToString(complaint.userId) # IdToString(user)
    \/ u.role = "departmentAdmin" /\ complaint.category # u.department

\* the controller's authorization check on the complaint the service returned
NotAuthorized(user, complaint) ==
    LET u == UserDoc(user) IN
    \/ u.role = "resident" /\ DocToString(complaint.userId) # IdToString(user)
    \/ u.role = "departmentAdmin" /\ complaint.category # u.department
    \/ /\ u.role = "maintenanceStaff"
       /\ \/ ~complaint.assignedStaff.populated
          \/ DocToString(complaint.assignedStaff) # IdToString(user)

\* GET /api/complaints/:id
GetComplaint(r, in) ==
    \E user \in in.readers, id \in in.qIds :
        LET complaint == GetComplaintById(id) IN
        Answer(r, "get", user, [NoQuery EXCEPT !.id = id],
               IF complaint = NoDoc THEN [NoResp EXCEPT !.code = 404]
               ELSE IF NotAuthorized(user, complaint) THEN [NoResp EXCEPT !.code = 403]
               ELSE [NoResp EXCEPT !.code = 200, !.docs = {id}])

\* ------------------------------------------------------------ the requests
\* the request bodies the route validators let through, with the acting principal
ArgsOf(in, op) ==
    LET who == {[NoArgs EXCEPT !.userId = u] : u \in Actors(in, op)} IN
    CASE op = "create" ->
            UNION {{[a EXCEPT !.category = k, !.subcategory = s, !.description = d,
                              !.images = n] :
                        a \in who, s \in in.subcategories[k],
                        d \in in.descriptions, n \in in.images} : k \in in.categories}
      [] op = "assign" ->
            {[a EXCEPT !.agencyId = g] : a \in who, g \in in.agencyIds}
      [] op = "assignStaff" ->
            {[a EXCEPT !.staffId = g] : a \in who, g \in in.staffIds}
      [] op = "resolve" ->
            {[a EXCEPT !.notes = n] : a \in who, n \in ResolutionNotes}
      [] op = "feedback" ->
            {[a EXCEPT !.rating = n, !.comment = m] :
                a \in who, n \in in.ratings, m \in in.comments}
      [] op = "finalize" ->
            {[a EXCEPT !.notes = n] : a \in who, n \in Resolutions}

\* a request reaches its handler: session started, nothing read yet
Arrive(r, in) ==
    /\ Free(r)
    /\ \E op \in Ops, c \in in.cids :
        /\ (op = "create") => c \notin UsedCids
        /\ \E a \in ArgsOf(in, op) :
            req' = [req EXCEPT ![r] = [IdleReq EXCEPT !.pc = "new", !.op = op, !.cid = c,
                                                     !.args = a, !.issuedVer = ver[c]]]
    /\ UNCHANGED <<db, ver, wlock, users, now, services>>

\* what is left of a request a middleware answered
Rejected(op, c, u, code) ==
    [IdleReq EXCEPT !.pc = "done", !.op = op, !.cid = c,
                    !.result = IF code = 401 THEN "User not found"
                               ELSE IF Protect(u) # 200 THEN "Account not approved yet"
                               ELSE "Forbidden",
                    !.resp = [NoResp EXCEPT !.code = code, !.by = u]]

\* a request stopped by protect or by the route's checkRole (it leaves the store
\* alone: rejections are taken after a request that got through)
Reject(r, in) ==
    /\ Free(r)
    /\ req[r].resp = NoResp
    /\ \E op \in Ops, c \in in.cids : \E u \in in.principals[op] :
        LET code == IF Protect(u) # 200 THEN Protect(u) ELSE CheckRole(u, op) IN
        /\ code # 200
        /\ req' = [req EXCEPT ![r] = Rejected(op, c, u, code)]
    /\ UNCHANGED <<db, ver, wlock, users, now, services>>

\* the steps of a request that has arrived
Steps(r, in) ==
    \/ CreateComplaint(r, in)
    \/ AssignComplaint(r, in)
    \/ AssignToStaff(r, in)
    \/ ResolveComplaint(r, in)
    \/ SubmitFeedback(r, in)
    \/ FinalizeComplaint(r, in)
    \/ PreSaveHook(r)
    \/ Save(r)
    \/ Notify(r, in)
    \/ Commit(r)

\* one request at a time, any input
Next ==
    \/ Arrive("r1", FullInputs)
    \/ Steps("r1", FullInputs)

Spec == Init /\ [][Next]_vars

\* the same requests against a User collection with or without an approved
\* superAdmin (assignments are then made by the departmentAdmin)
PopInputs ==
    [FullInputs EXCEPT !.principals = [OnePerRoute EXCEPT !["assign"] = {"dadm"}],
                       !.comments = {""}, !.gateway = {TRUE}]

InitPop ==
    /\ db = [c \in Cids |-> NoDoc]
    /\ ver = [c \in Cids |-> 0]
    /\ wlock = [c \in Cids |-> Null]
    /\ req = [r \in Reqs |-> IdleReq]
    /\ users \in {UserFixture, NoApprovedSuperAdmin}
    /\ now = 0
    /\ InitServices

NextPop ==
    \/ Arrive("r1", PopInputs)
    \/ Steps("r1", PopInputs)

SpecPop == InitPop /\ [][NextPop]_vars

\* one request at a time, few inputs, runs long enough for a second round of
\* assign, resolve and feedback on the same complaint
LongInputs ==
    [categories |-> {"Electrical"}, subcategories |-> FirstSubcategory,
     descriptions |-> {20}, images |-> {0},
     ratings |-> RatingsSent, comments |-> {""},
     agencyIds |-> {"dadm"}, staffIds |-> {"staff"},
     principals |-> OnePerRoute, gateway |-> {TRUE}, writes |-> MaxWritesLong,
     cids |-> 1..MaxComplaints]

NextLong ==
    \/ Arrive("r1", LongInputs)
    \/ Steps("r1", LongInputs)

SpecLong == Init /\ [][NextLong]_vars

\* reads between the requests that change the store
ReadInputs ==
    [categories |-> Categories, subcategories |-> FirstSubcategory,
     descriptions |-> {20}, images |-> {0},
     ratings |-> {2, 4}, comments |-> {""},
     agencyIds |-> {"dadm"}, staffIds |-> {"staff"},
     principals |-> [OnePerRoute EXCEPT !["create"] = {"res1", "dadm"}],
     gateway |-> {TRUE}, writes |-> MaxWrites, cids |-> 1..MaxComplaints,
     readers |-> {"res1", "dadm", "staff", "staff2", "sadm"},
     qUserIds |-> {Null, "res1", "dadm", "zz"}, qCategories |-> {Null} \cup Categories,
     qStatuses |-> {Null, "pending"}, qIds |-> 1..(MaxComplaints + 1),
     callable |-> BOOLEAN]

NextRead ==
    \/ Arrive("r1", ReadInputs)
    \/ Steps("r1", ReadInputs)
    \/ ListComplaints("r1", ReadInputs)
    \/ Stats("r1", ReadInputs)
    \/ CategoryDistribution("r1", ReadInputs)
    \/ GetComplaint("r1", ReadInputs)

SpecRead == Init /\ [][NextRead]_vars

\* a second request arrives only while the first is in flight (a request arriving
\* while none is in flight is "r1")
ArriveConc(r) ==
    /\ (r # "r1") => req["r1"].pc \in {"new", "run"}
    /\ Arrive(r, ConcInputs)

\* two overlapping requests
NextConc ==
    \/ \E r \in Reqs : ArriveConc(r)
    \/ \E r \in Reqs : Steps(r, ConcInputs)

SpecConc == Init /\ [][NextConc]_vars

\* the clock passes into the next calendar month
Tick ==
    /\ now < MaxMonths
    /\ now' = now + 1
    /\ UNCHANGED <<db, ver, wlock, req, users, services>>

\* submissions only, one or two at a time, in one month or the next, with bodies
\* the validators accept and bodies they refuse
SubmitInputs ==
    [categories |-> {"Electrical", "Roads"},
     subcategories |-> [k \in {"Electrical", "Roads"} |-> {"Lighting", "Plumbing", ""}],
     descriptions |-> {DescriptionMaxLength, DescriptionMaxLength + 1},
     images |-> {MaxImages, MaxImages + 1},
     ratings |-> {}, comments |-> {}, agencyIds |-> {}, staffIds |-> {},
     principals |-> [op \in Ops |-> IF op = "create" THEN {"res1"} ELSE {}],
     gateway |-> {TRUE}, writes |-> MaxSubmitted, cids |-> 1..MaxSubmitted]

NextSubmit ==
    \/ \E r \in Reqs : Arrive(r, SubmitInputs)
    \/ \E r \in Reqs : CreateComplaint(r, SubmitInputs)
    \/ \E r \in Reqs : PreSaveHook(r)
    \/ \E r \in Reqs : Save(r)
    \/ \E r \in Reqs : Notify(r, SubmitInputs)
    \/ \E r \in Reqs : Commit(r)
    \/ Tick

SpecSubmit == Init /\ [][NextSubmit]_vars

\* two complaints: the operations one at a time, and a second submission that
\* overlaps them
TwoInputs ==
    [ConcInputs EXCEPT !.ratings = {2}, !.agencyIds = {"dadm"}, !.cids = 1..MaxSubmitted]

SubmitOnly ==
    [TwoInputs EXCEPT !.principals = [op \in Ops |-> IF op = "create" THEN {"res1"} ELSE {}]]

NextTwo ==
    \/ Arrive("r1", TwoInputs)
    \/ Arrive("r2", SubmitOnly)
    \/ \E r \in Reqs : Steps(r, TwoInputs)

SpecTwo == Init /\ [][NextTwo]_vars

\* one request at a time, sent by any user (or with the token of a deleted one)
\* on any route
WhoInputs ==
    [categories |-> Categories, subcategories |-> FirstSubcategory,
     descriptions |-> {20}, images |-> {0},
     ratings |-> {2}, comments |-> {""},
     agencyIds |-> {"staff"}, staffIds |-> {"staff"},
     principals |-> [op \in Ops |-> IF op = "create" THEN {"res1"}
                                                     ELSE Users \cup {"ghost"}],
     gateway |-> {TRUE}, writes |-> MaxWrites, cids |-> 1..MaxComplaints]

NextWho ==
    \/ Arrive("r1", WhoInputs)
    \/ Reject("r1", WhoInputs)
    \/ Steps("r1", WhoInputs)

SpecWho == Init /\ [][NextWho]_vars

\* statistics asked between the requests, over a store of up to two complaints
StatsInputs ==
    [ReadInputs EXCEPT !.ratings = {4}, !.cids = 1..MaxSubmitted,
                       !.readers = {"res1", "dadm", "sadm"},
                       !.qUserIds = {Null, "res1", "zz"}, !.qStatuses = {Null}]

NextStats ==
    \/ Arrive("r1", StatsInputs)
    \/ Steps("r1", StatsInputs)
    \/ Stats("r1", StatsInputs)

SpecStats == Init /\ [][NextStats]_vars

\* ============================================================== broadcasts
\* POST /api/misc/broadcasts/:id/send: the controller calls sendBroadcast
SendRoute(p) ==
    /\ p \in {"manual", "manual2"}
    /\ sender[p].pc = "idle"
    /\ sender' = [sender EXCEPT ![p].pc = "send"]
    /\ UNCHANGED <<broadcast, fanouts, complaints, polls, visitors>>

\* updateBroadcast: the stored document is read and refused when already
\* sent; the fields of updateData are copied (status among them) and saved;
\* updateData.status = "sent" then calls sendBroadcast
UpdateBroadcast(p) ==
    /\ p = "update"
    /\ sender[p].pc = "idle"
    /\ IF broadcast.isSent
         THEN /\ sender' = [sender EXCEPT ![p] =
                    [pc |-> "done",
                     err |-> "Cannot update a broadcast that has already been sent"]]
              /\ UNCHANGED <<broadcast, fanouts, complaints, polls, visitors>>
         ELSE \E status \in {"scheduled", "sent"} :
                /\ broadcast' = [broadcast EXCEPT !.status = status]
                /\ sender' = [sender EXCEPT ![p].pc =
                                  IF status = "sent" THEN "send" ELSE "done"]
                /\ UNCHANGED <<fanouts, complaints, polls, visitors>>

\* processScheduledBroadcasts, run by the scheduler every 15 minutes and by
\* its route: every broadcast that is scheduled, unsent and due is sent
ProcessScheduledBroadcasts(p) ==
    /\ p = "sweep"
    /\ sender[p].pc = "idle"
    /\ sender' = [sender EXCEPT ![p].pc =
            IF /\ broadcast.status = "scheduled"
               /\ ~broadcast.isSent
               /\ broadcast.scheduledAt <= now
            THEN "send" ELSE "done"]
    /\ UNCHANGED <<broadcast, fanouts, complaints, polls, visitors>>

\* sendBroadcast, one step per stretch between awaits: findById and the isSent
\* test; the loop over the target users; the save that sets isSent
SendBroadcast(p) ==
    \/ /\ sender[p].pc = "send"
       /\ sender' = [sender EXCEPT ![p] =
              IF broadcast.isSent
              THEN [pc |-> "done", err |-> "Broadcast has already been sent"]
              ELSE [pc |-> "fanout", err |-> Null]]
       /\ UNCHANGED <<broadcast, fanouts, complaints, polls, visitors>>
    \/ /\ sender[p].pc = "fanout"
       /\ fanouts' = fanouts + 1
       /\ sender' = [sender EXCEPT ![p].pc = "save"]
       /\ UNCHANGED <<broadcast, complaints, polls, visitors>>
    \/ /\ sender[p].pc = "save"
       /\ broadcast' = [broadcast EXCEPT !.isSent = TRUE, !.status = "sent"]
       /\ sender' = [sender EXCEPT ![p].pc = "done"]
       /\ UNCHANGED <<fanouts, complaints, polls, visitors>>

\* createBroadcast: a broadcast is created as a draft, or scheduled when a
\* date is given
CreateBroadcast ==
    /\ broadcast = NewBroadcast(-1)
    /\ \A q \in Senders : sender[q].pc = "idle"
    /\ broadcast' = NewBroadcast(now)
    /\ UNCHANGED <<fanouts, sender, complaints, polls, visitors>>

NextBroadcast ==
    \/ CreateBroadcast
    \/ \E p \in Senders : SendRoute(p)
    \/ \E p \in Senders : UpdateBroadcast(p)
    \/ \E p \in Senders : ProcessScheduledBroadcasts(p)
    \/ \E p \in Senders : SendBroadcast(p)

SpecBroadcast == Init /\ [][NextBroadcast]_vars

\* =================================================================== polls
\* createPoll: the poll is stored, and its target users are notified when it
\* is created active
CreatePoll ==
    /\ poll = NoPoll
    /\ \E status \in {"draft", "active"}, allowMultipleSelections \in BOOLEAN :
          /\ poll' = NewPoll(status, now, allowMultipleSelections)
          /\ notified' = IF status = "active" THEN notified + 1 ELSE notified
    /\ UNCHANGED <<responses, call, complaints, broadcasts, visitors>>

\* updatePoll computes wasActivated from the document after the fields of
\* updateData, status among them, have been copied into it
WasActivated(copied, updateData) ==
    copied.status # "active" /\ updateData.status = "active"

\* updatePoll with a status in updateData: refused for a closed or archived
\* poll; the copy is saved, and the target users are notified if wasActivated
UpdatePoll ==
    /\ poll # NoPoll
    /\ poll.status \notin {"closed", "archived"}
    /\ \E updateData \in {[status |-> st] : st \in {"active", "closed"}} :
          LET copied == [poll EXCEPT !.status = updateData.status]
          IN  /\ poll' = copied
              /\ notified' = IF WasActivated(copied, updateData)
                              THEN notified + 1 ELSE notified
    /\ UNCHANGED <<responses, call, complaints, broadcasts, visitors>>

\* the bodies submitPollResponse is called with: arrays of option ids, which
\* may be empty, repeat an id or name an id the poll does not have
SelectedOptions ==
    {<<>>, <<"o1">>, <<"o2">>, <<"zz">>, <<"o1", "o1">>, <<"o1", "o2">>}

NoUniqueResponseIndex(userId) == FALSE

\* the unique index { pollId: 1, userId: 1 } of PollResponse
DuplicateResponse(userId) ==
    \E i \in 1..Len(responses) : responses[i].userId = userId

Occurrences(selectedOptions, o) ==
    Cardinality({i \in 1..Len(selectedOptions) : selectedOptions[i] = o})

\* the call returns (message Null) or throws; its locals are gone
Return(c, message) ==
    call' = [call EXCEPT ![c] = [IdleCall EXCEPT !.pc = "done", !.err = message]]

\* submitPollResponse, one step per stretch between awaits: Poll.findById with
\* the status and expiry tests; PollResponse.findOne with the validation of
\* the selection; PollResponse.create; the counters raised on the document
\* read in the first step and saved (the save sets the paths that changed)
SubmitPollResponse(c) ==
    \/ /\ call[c].pc = "idle"
       /\ poll # NoPoll
       /\ \E selectedOptions \in SelectedOptions :
            IF poll.status # "active"
            THEN /\ Return(c, "This poll is not currently active")
                 /\ UNCHANGED poll
            ELSE IF now > poll.endDate
            THEN /\ poll' = [poll EXCEPT !.status = "closed"]
                 /\ Return(c, "This poll has expired")
            ELSE /\ call' = [call EXCEPT ![c] =
                        [pc |-> "findOne", poll |-> poll,
                         selectedOptions |-> selectedOptions, err |-> Null]]
                 /\ UNCHANGED poll
       /\ UNCHANGED <<responses, notified, complaints, broadcasts, visitors>>
    \/ /\ call[c].pc = "findOne"
       /\ LET selectedOptions == call[c].selectedOptions
          IN  IF \E i \in 1..Len(responses) : responses[i].userId = CallUser(c)
              THEN Return(c, "You have already responded to this poll")
              ELSE IF Len(selectedOptions) = 0
              THEN Return(c, "You must select at least one option")
              ELSE IF ~call[c].poll.allowMultipleSelections /\ Len(selectedOptions) > 1
              THEN Return(c, "This poll does not allow multiple selections")
              ELSE IF \E i \in 1..Len(selectedOptions) :
                         selectedOptions[i] \notin PollOptions
              THEN Return(c, "One or more selected options are invalid")
              ELSE call' = [call EXCEPT ![c].pc = "create"]
       /\ UNCHANGED <<poll, responses, notified, complaints, broadcasts, visitors>>
    \/ /\ call[c].pc = "create"
       /\ IF DuplicateResponse(CallUser(c))
          THEN /\ Return(c, "E11000 duplicate key error")
               /\ UNCHANGED responses
          ELSE /\ responses' = Append(responses,
                      [userId |-> CallUser(c),
                       selectedOptions |-> call[c].selectedOptions])
               /\ call' = [call EXCEPT ![c].pc = "save"]
       /\ UNCHANGED <<poll, notified, complaints, broadcasts, visitors>>
    \/ /\ call[c].pc = "save"
       /\ LET read == call[c].poll
              selectedOptions == call[c].selectedOptions
          IN  poll' = [poll EXCEPT
                  !.options = [o \in PollOptions |->
                      IF Occurrences(selectedOptions, o) > 0
                      THEN read.options[o] + Occurrences(selectedOptions, o)
                      ELSE poll.options[o]],
                  !.totalResponses = read.totalResponses + 1]
       /\ Return(c, Null)
       /\ UNCHANGED <<responses, notified, complaints, broadcasts, visitors>>

NextPoll ==
    \/ CreatePoll
    \/ UpdatePoll
    \/ \E c \in Calls : SubmitPollResponse(c)
    \/ Tick

SpecPoll == Init /\ [][NextPoll]_vars

\* ================================================================ visitors
\* a call on the visitor request has ended: err is the message it threw, or
\* Null when it saved the request with the status given
Visited(op, status, err) ==
    /\ Len(visits) < MaxVisitorCalls
    /\ visitor' = [visitor EXCEPT !.status = status]
    /\ visits' = Append(visits, [op |-> op, from |-> visitor.status,
                                 status |-> status, err |-> err])
    /\ UNCHANGED <<complaints, broadcasts, polls>>

\* updateVisitorStatus, called by the approve route with 'approved' and by the
\* reject route with 'rejected': the status is set whatever it was
UpdateVisitorStatus(status) ==
    /\ status \in {"approved", "rejected"}
    /\ Visited(IF status = "approved" THEN "approve" ELSE "reject", status, Null)

CheckInVisitor ==
    IF visitor.status # "approved"
    THEN Visited("checkIn", visitor.status,
                 "Visitor request must be approved before check-in")
    ELSE Visited("checkIn", "checked-in", Null)

CheckOutVisitor ==
    IF visitor.status # "checked-in"
    THEN Visited("checkOut", visitor.status,
                 "Visitor must be checked-in before check-out")
    ELSE Visited("checkOut", "checked-out", Null)

\* cancelVisitorRequest finds the request among those of the calling user
CancelVisitorRequest(userId) ==
    IF visitor.requestedBy # userId
    THEN Visited("cancel", visitor.status, "Visitor request not found")
    ELSE IF visitor.status \notin {"pending", "approved"}
    THEN Visited("cancel", visitor.status,
                 "Only pending or approved visitor requests can be cancelled")
    ELSE Visited("cancel", "cancelled", Null)

NextVisitor ==
    \/ \E status \in {"approved", "rejected"} : UpdateVisitorStatus(status)
    \/ CheckInVisitor
    \/ CheckOutVisitor
    \/ \E userId \in {"res1", "res2"} : CancelVisitorRequest(userId)

SpecVisitor == Init /\ [][NextVisitor]_vars

\* ================================================================== claims
Last(h) == h[Len(h)]

CountIn(h, P(_)) == Cardinality({i \in 1..Len(h) : P(h[i])})

\* the request has written inside its transaction and not yet committed
Saved(r) ==
    /\ req[r].pc = "run"
    /\ \A i \in 1..Len(req[r].todo) : req[r].todo[i].t # "save"

\* the step completes request r with `ok` (its commit)
Commits(r) == req[r].pc = "run" /\ req'[r].pc = "done" /\ req'[r].result = "ok"

\* the step completes request r with an error
Fails(r) == req[r].pc \in {"new", "run"} /\ req'[r].pc = "done" /\ req'[r].result # "ok"

InvalidStateErrors ==
    {"Complaint must be in assigned status to be resolved",
     "Complaint must be resolved before submitting feedback",
     "Only escalated complaints can receive final resolution"}

Edges ==
    {<<"pending", "assigned">>, <<"assigned", "resolved">>, <<"resolved", "closed">>,
     <<"resolved", "escalated">>, <<"escalated", "finalResolution">>}

\* C1: every change of a stored complaint's status follows one of the edges
\* pending->assigned, assigned->resolved, resolved->closed, resolved->escalated,
\* escalated->finalResolution, and a request that ends in an error leaves the
\* stored complaint as it was.
C1_TransitionGraph ==
    [][\A c \in Cids :
        /\ (Exists(c) /\ db'[c].status # db[c].status)
              => <<db[c].status, db'[c].status>> \in Edges
        /\ (\E r \in Reqs : Fails(r)) => db'[c] = db[c]]_vars

\* C2: feedback on a resolved complaint closes it (closedAt recorded) exactly when
\* the rating is at least 3 and escalates it exactly when the rating is below 3,
\* both in the document the handler is about to write and in what is stored.
C2_FeedbackThreshold ==
    /\ \A r \in Reqs :
        (req[r].pc = "run" /\ req[r].op = "feedback") =>
            LET d == req[r].local IN
            /\ d.feedback.rating \in 1..5
            /\ (d.feedback.rating >= 3) <=> (d.status = "closed")
            /\ (d.feedback.rating < 3) <=> (d.status = "escalated")
            /\ (d.status = "closed") => d.closedAt
            /\ Last(d.history).status = d.status
    /\ \A c \in Cids :
        /\ (Exists(c) /\ db[c].status = "closed")
              => (db[c].feedback # NoFeedback /\ db[c].feedback.rating >= 3 /\ db[c].closedAt)
        /\ (Exists(c) /\ db[c].status = "escalated")
              => (db[c].feedback # NoFeedback /\ db[c].feedback.rating < 3)

\* a rating of exactly 3 has closed a complaint
C2_Witness ==
    \E c \in Cids, r \in Reqs :
        /\ Exists(c) /\ db[c].status = "closed" /\ db[c].feedback.rating = 3
        /\ db[c].closedAt
        /\ req[r].pc = "done" /\ req[r].op = "feedback" /\ req[r].result = "ok"

\* the status the stored complaint had when the request was issued
IssuedStatus(r) ==
    IF req[r].issuedVer = 0 THEN "none"
    ELSE db[req[r].cid].history[req[r].issuedVer].status

\* the operation that appended a history entry, read off its notes
EntryOp(e) ==
    CASE e.notes[1] = "Complaint submitted" -> "create"
      [] e.notes[1] = "Assigned to" -> "assign"
      [] e.notes[1] = "Assigned to staff" -> "assignStaff"
      [] e.notes[1] \in {"User satisfied", "User not satisfied"} -> "feedback"
      [] e.notes[1] = "Final resolution" -> "finalize"
      [] OTHER -> "resolve"

\* the entries committed to the request's complaint after the request was issued
SinceIssued(r) ==
    LET h == db[req[r].cid].history IN
    {h[i] : i \in (req[r].issuedVer + 1)..Len(h)}

\* C3: of the assignToAgency requests issued on a pending complaint exactly one
\* succeeds: a request issued while the complaint was pending does not get to
\* write once another assignment has been committed, so the history holds one
\* "assigned" entry and assignedAgency is the winner's.
C3_OneAssignWins ==
    \A r \in Reqs :
        (Saved(r) /\ req[r].op = "assign" /\ IssuedStatus(r) = "pending")
            => \A e \in SinceIssued(r) : EntryOp(e) # "assign"

\* C4: of two resolve, two submitFeedback or two finalize requests in flight on
\* one complaint at most one commits: a request gets to write only if the one
\* commit made since it was issued (if any) is not of its own operation, nothing
\* was committed since it read, and what it is about to commit is the stored
\* complaint plus its own single history entry (no mix with the loser's fields).
C4_AtMostOneCommits ==
    \A r \in Reqs :
        (Saved(r) /\ req[r].op \in {"resolve", "feedback", "finalize"}) =>
            LET c == req[r].cid IN
            /\ (ver[c] = req[r].issuedVer + 1) =>
                  \A e \in SinceIssued(r) : EntryOp(e) # req[r].op
            /\ req[r].snapVer = ver[c]
            /\ req[r].local.history = Append(db[c].history, Last(req[r].local.history))
            /\ EntryOp(Last(req[r].local.history)) = req[r].op

\* two overlapping feedback requests, one on each side of the threshold: one
\* committed, the other lost on the write conflict
C4_Witness ==
    \E r, q \in Reqs :
        /\ r # q
        /\ req[r].pc = "done" /\ req[r].op = "feedback" /\ req[r].result = "ok"
        /\ req[q].pc = "done" /\ req[q].op = "feedback" /\ req[q].result = "WriteConflict"
        /\ db[req[r].cid].status = "escalated"
        /\ req[q].sent # <<>>

\* C5: once the stored status is closed or finalResolution it never changes.
C5_Terminal ==
    [][\A c \in Cids :
        (Exists(c) /\ db[c].status \in {"closed", "finalResolution"})
            => db'[c].status = db[c].status]_vars

\* C6: the history is append-only: a step leaves it as it is or appends one entry
\* to it, a request that succeeds appends exactly one entry, a request that fails
\* appends none.
C6_AppendOnly ==
    [][\A c \in Cids :
        /\ Exists(c) =>
            \/ db'[c].history = db[c].history
            \/ /\ Len(db'[c].history) = Len(db[c].history) + 1
               /\ SubSeq(db'[c].history, 1, Len(db[c].history)) = db[c].history
        /\ \A r \in Reqs :
            /\ (Commits(r) /\ req[r].cid = c) =>
                  Len(db'[c].history) = (IF Exists(c) THEN Len(db[c].history) ELSE 0) + 1
            /\ Fails(r) => db'[c] = db[c]]_vars

\* a history has grown to five entries and a later request was refused
C6_Witness ==
    \E c \in Cids, r \in Reqs :
        /\ Exists(c) /\ Len(db[c].history) = 5 /\ db[c].status = "finalResolution"
        /\ req[r].pc = "done" /\ req[r].result \in InvalidStateErrors

IsResolvedEntry(e) == e.status = "resolved" /\ EntryOp(e) = "resolve"

IsAssignedEntry(e) == e.status = "assigned" /\ EntryOp(e) = "assign"

Whole(d) ==
    /\ Last(d.history).status = d.status
    /\ d.status = "assigned" => (d.assignedAgency # Null /\ d.assignedAt)
    /\ d.status = "resolved" => (d.resolvedAt /\ d.resolutionNotes # Null)
    /\ d.status = "closed" => (d.feedback # NoFeedback /\ d.closedAt)
    /\ d.status = "escalated" =>
          (d.feedback # NoFeedback /\ d.escalation.escalatedAt /\ d.escalation.reason # Null)
    /\ d.status = "finalResolution" =>
          (d.escalation.finalResolution # Null /\ d.escalation.finalResolvedAt /\ d.closedAt)

\* C8: the stored complaint changes only in the step that commits a request, and
\* then to the whole of what that request wrote (fields and history entry
\* together); a request that fails at any step leaves the store as it was.
C8_AllOrNothing ==
    [][\A c \in Cids :
        /\ db'[c] # db[c] =>
              /\ \E r \in Reqs : Commits(r) /\ req[r].cid = c /\ db'[c] = req[r].local
              /\ Whole(db'[c])
        /\ (\E r \in Reqs : Fails(r)) => db' = db]_vars

\* of two overlapping assignments one committed and the other failed at its write
C8_Witness ==
    \E r, q \in Reqs :
        /\ r # q
        /\ req[r].pc = "done" /\ req[r].op = "assign" /\ req[r].result = "ok"
        /\ req[q].pc = "done" /\ req[q].op = "assign" /\ req[q].result = "WriteConflict"
        /\ Len(db[req[r].cid].history) = 2

\* C9: a notification for a transition is sent only after the transition's
\* transaction has committed.
C9_NotifyAfterCommit ==
    \A r \in Reqs : req[r].sent # <<>> => req[r].committed

\* C10: a failing notification neither fails nor rolls back the request: no
\* handler ends with a notification error, a handler that saw a send fail goes on
\* and its request ends committed with `ok`, and no send is repeated (a handler
\* sends at most once to each of its at most two recipients).
C10_GatewayFailureIgnored ==
    \A r \in Reqs :
        /\ req[r].result # "NotificationError"
        /\ (req[r].pc = "done" /\ req[r].gwFailed)
              => (req[r].result = "ok" /\ req[r].committed
                    /\ Whole(db[req[r].cid]))
        /\ (req[r].pc = "run" /\ req[r].gwFailed) => req[r].todo # <<>>
        /\ Len(req[r].sent) + CountIn(req[r].todo, LAMBDA st : st.t = "notify") <= 2

\* a resolve whose notification failed still committed
C10_Witness ==
    \E r \in Reqs :
        /\ req[r].pc = "done" /\ req[r].op = "resolve" /\ req[r].gwFailed
        /\ req[r].result = "ok" /\ db[req[r].cid].status = "resolved"

\* C11: a submitFeedback with rating 1 or 2 that succeeds leaves the complaint
\* escalated with escalation.appellateAuthority set to an approved superAdmin,
\* whatever the users are, also when none of them is an approved superAdmin.
C11_AppellateAuthoritySet ==
    \A r \in Reqs :
        (req[r].pc = "done" /\ req[r].op = "feedback" /\ req[r].result = "ok"
            /\ db[req[r].cid].status = "escalated") =>
            LET who == db[req[r].cid].escalation.appellateAuthority IN
            /\ who # Null
            /\ IsApprovedSuperAdmin(who)

\* the request is an answered read of route op
Read(r, op) == req[r].pc = "done" /\ req[r].op = op /\ req[r].resp.code # 0

\* C12: the list answered to a resident holds no complaint reported by another
\* user and the list answered to a departmentAdmin of department D holds no
\* complaint of another category, whatever filters the caller sent.
C12_ListScoped ==
    \A r \in Reqs : Read(r, "list") =>
        LET who == req[r].resp.by IN
        \A c \in req[r].resp.docs :
            /\ Exists(c)
            /\ UserDoc(who).role = "resident" => db[c].userId = who
            /\ UserDoc(who).role = "departmentAdmin"
                  => db[c].category = UserDoc(who).department

\* a resident asked for another reporter's complaints by userId and got the list
\* of their own, while a complaint of the other reporter is stored
C12_Witness ==
    \E r \in Reqs, c \in Cids :
        /\ Read(r, "list") /\ req[r].resp.by = "res1" /\ req[r].resp.code = 200
        /\ req[r].resp.query.userId = "dadm"
        /\ Exists(c) /\ db[c].userId = "dadm" /\ c \notin req[r].resp.docs

\* C13: the list answered to a maintenanceStaff principal holds only complaints
\* whose assignedStaff is that principal: none assigned to somebody else, none
\* unassigned.
C13_StaffListScoped ==
    \A r \in Reqs :
        (Read(r, "list") /\ UserDoc(req[r].resp.by).role = "maintenanceStaff") =>
            \A c \in req[r].resp.docs : db[c].assignedStaff = req[r].resp.by

\* the complaints a principal may see: a resident their own, a departmentAdmin
\* those of the department, a maintenanceStaff those assigned to them, a
\* superAdmin all
InScope(who) ==
    LET u == UserDoc(who) IN
    {c \in Cids :
        /\ Exists(c)
        /\ u.role = "resident" => db[c].userId = who
        /\ u.role = "departmentAdmin" => db[c].category = u.department
        /\ u.role = "maintenanceStaff" => db[c].assignedStaff = who}

\* the complaints the listing answers to the principal of a read for its query
Listed(r) ==
    GetComplaints(GetComplaintsFilters(req[r].resp.by, req[r].resp.query), TRUE).docs

\* the count a category distribution gives for a category
DistCount(dist, k) ==
    IF \E g \in dist : g.category = k
    THEN (CHOOSE g \in dist : g.category = k).count
    ELSE 0

\* C14: stats and categoryDistribution aggregate exactly the complaints the same
\* principal obtains from the listing with the same filters, so they count no
\* complaint outside the principal's scope.
C14_AggregatesScoped ==
    \A r \in Reqs :
        /\ (Read(r, "stats") /\ req[r].resp.code = 200) =>
            /\ req[r].resp.stats.total = Cardinality(Listed(r))
            /\ req[r].resp.stats.total <= Cardinality(InScope(req[r].resp.by))
            /\ req[r].resp.stats.pending = CountStatus(Listed(r), "pending")
        /\ (Read(r, "dist") /\ req[r].resp.code = 200) =>
            \A k \in Categories :
                /\ DistCount(req[r].resp.dist, k)
                      = Cardinality({c \in Listed(r) : db[c].category = k})
                /\ DistCount(req[r].resp.dist, k)
                      <= Cardinality({c \in InScope(req[r].resp.by) : db[c].category = k})

\* C15: getComplaint answers the complaint only to a principal in scope: it
\* answers 403 to a resident who is not the reporter, to a departmentAdmin of
\* another department and to a maintenanceStaff the complaint is not assigned to
\* (also when nobody is assigned), 404 when no complaint has the id, and it never
\* refuses a superAdmin.
C15_GetComplaintScoped ==
    \A r \in Reqs : Read(r, "get") =>
        LET who == req[r].resp.by
            id == req[r].resp.query.id
            found == id \in Cids /\ Exists(id)
        IN  /\ req[r].resp.code = 200 =>
                  (found /\ id \in InScope(who) /\ req[r].resp.docs = {id})
            /\ (found /\ id \notin InScope(who)) => req[r].resp.code = 403
            /\ ~found <=> req[r].resp.code = 404
            /\ (found /\ UserDoc(who).role = "superAdmin") => req[r].resp.code = 200

\* a maintenanceStaff was refused a complaint that is assigned to a colleague
C15_Witness ==
    \E r \in Reqs :
        /\ Read(r, "get") /\ req[r].resp.by = "staff2" /\ req[r].resp.code = 403
        /\ db[req[r].resp.query.id].assignedStaff = "staff"

\* C16: a stored complaint with assignedStaff set has assignedAgency set, and an
\* assignToStaff on a complaint without assignedAgency fails and changes nothing.
C16_StaffOnlyAfterAgency ==
    /\ \A c \in Cids :
        (Exists(c) /\ db[c].assignedStaff # Null) => db[c].assignedAgency # Null
    /\ \A r \in Reqs :
        (req[r].pc = "run" /\ req[r].op = "assignStaff")
            => req[r].local.assignedAgency # Null

\* C17: the commit of an assignToStaff changes nothing of the stored complaint
\* but assignedStaff, set to the maintenance staff asked for, and the history,
\* which gains one entry carrying the complaint's unchanged status.
C17_AssignToStaffFrame ==
    [][\A r \in Reqs :
        (Commits(r) /\ req[r].op = "assignStaff") =>
            LET old == db[req[r].cid]
                new == db'[req[r].cid]
            IN  /\ new = [old EXCEPT !.assignedStaff = new.assignedStaff,
                                     !.history = Append(@, Last(new.history))]
                /\ IsStaff(new.assignedStaff)
                /\ Last(new.history).status = old.status
                /\ EntryOp(Last(new.history)) = "assignStaff"
                /\ new.status = old.status]_vars

\* a staff member was assigned on a resolved complaint, which stayed resolved
C17_Witness ==
    \E r \in Reqs :
        /\ req[r].pc = "done" /\ req[r].op = "assignStaff" /\ req[r].result = "ok"
        /\ LET d == db[req[r].cid] IN
            /\ d.status = "resolved" /\ d.assignedStaff = "staff"
            /\ d.assignedAgency # Null /\ d.resolutionNotes # Null
            /\ Last(d.history).status = "resolved"
            /\ EntryOp(Last(d.history)) = "assignStaff"

\* C18: a stored complaint carries escalation fields (reason, escalatedAt,
\* appellateAuthority, finalResolution, finalResolvedAt) only while its status is
\* escalated or finalResolution.
C18_EscalationOnlyWhenEscalated ==
    \A c \in Cids :
        (Exists(c) /\ db[c].escalation # EmptyEscalation)
            => db[c].status \in {"escalated", "finalResolution"}

\* C19: the stored feedback changes only in a step taken on a resolved complaint,
\* only once per complaint (from no feedback to a feedback) and only to a rating
\* in 1..5; a complaint is created without feedback, and a submitFeedback with a
\* rating outside 1..5 is refused and changes nothing.
C19_FeedbackOnce ==
    [][/\ \A c \in Cids :
            /\ (Exists(c) /\ db'[c].feedback # db[c].feedback) =>
                  /\ db[c].status = "resolved"
                  /\ db[c].feedback = NoFeedback
                  /\ db'[c].feedback.rating \in 1..5
                  /\ db'[c].status \in {"closed", "escalated"}
            /\ (~Exists(c) /\ db'[c] # NoDoc) => db'[c].feedback = NoFeedback
       /\ \A r \in Reqs :
            (Requested(r, "feedback") /\ req[r].args.rating \notin 1..5
                /\ req'[r] # req[r])
                => (Fails(r) /\ db' = db)]_vars

\* C20: finalize goes through only on an escalated complaint, and its commit
\* leaves the complaint in finalResolution with escalation.finalResolution,
\* finalResolvedAt and closedAt recorded and the rest of the escalation as it
\* was; on a complaint in any other status it fails with the invalid-state error
\* and the store stays as it is.
C20_FinalizeOnlyEscalated ==
    [][\A r \in Reqs :
        LET c == req[r].cid IN
        /\ (Requested(r, "finalize") /\ Exists(c) /\ req'[r] # req[r]) =>
              IF db[c].status = "escalated"
              THEN req'[r].pc = "run" /\ req'[r].local.status = "finalResolution"
              ELSE /\ Fails(r)
                   /\ req'[r].result
                        = "Only escalated complaints can receive final resolution"
                   /\ db' = db
        /\ (Commits(r) /\ req[r].op = "finalize") =>
              /\ db[c].status = "escalated"
              /\ db'[c] = [db[c] EXCEPT
                              !.status = "finalResolution",
                              !.escalation.finalResolution = db'[c].escalation.finalResolution,
                              !.escalation.finalResolvedAt = TRUE,
                              !.closedAt = TRUE,
                              !.history = Append(@, Last(db'[c].history))]
              /\ db'[c].escalation.finalResolution \in Resolutions
              /\ Last(db'[c].history).status = "finalResolution"]_vars

\* a finalize went through on an escalated complaint and a second finalize, on
\* the complaint now in finalResolution, was refused
C20_Witness ==
    \E r \in Reqs :
        /\ req[r].pc = "done" /\ req[r].op = "finalize"
        /\ req[r].result = "Only escalated complaints can receive final resolution"
        /\ LET d == db[req[r].cid] IN
            /\ d.status = "finalResolution" /\ d.escalation.finalResolution = "repaired"
            /\ d.escalation.finalResolvedAt /\ d.closedAt /\ d.escalation.escalatedAt

NotFoundErrors == {"Complaint not found", "Maintenance agency not found"}

Audience(k) ==
    IF k = "Misc"
    THEN {u \in Users : users[u].role = "superAdmin" /\ users[u].status = "approved"}
    ELSE {u \in Users : /\ users[u].role = "departmentAdmin"
                         /\ users[u].department = k
                         /\ users[u].status = "approved"}

\* C22: a submit that succeeds stores a new complaint with status pending, the
\* caller as reporter and a history of exactly one entry (pending, by the
\* reporter); the notifications it sent went, once each, to exactly the approved
\* superAdmins when the category is Misc and to exactly the approved
\* departmentAdmins of the category's department otherwise.
C22_SubmitStores ==
    [][\A r \in Reqs :
        /\ (Requested(r, "create") /\ req'[r].pc = "run") =>
              LET d == req'[r].local IN
              /\ d.status = "pending"
              /\ d.userId = req[r].args.userId
              /\ d.category = req[r].args.category
              /\ Len(d.history) = 1
              /\ d.history[1].status = "pending"
              /\ d.history[1].updatedBy = req[r].args.userId
        /\ (Commits(r) /\ req[r].op = "create") =>
              LET c == req[r].cid
                  sent == req'[r].sent
              IN
              /\ ~Exists(c)
              /\ db'[c].status = "pending"
              /\ db'[c].userId = req[r].local.userId
              /\ Len(db'[c].history) = 1
              /\ db'[c].history[1].status = "pending"
              /\ db'[c].history[1].updatedBy = db'[c].userId
              /\ {sent[i] : i \in 1..Len(sent)} = Audience(db'[c].category)
              /\ Len(sent) = Cardinality(Audience(db'[c].category))]_vars

\* a Misc complaint was stored while no superAdmin was approved (nobody was
\* notified), or an Electrical one was stored and announced to its approved
\* departmentAdmin only
C22_Witness ==
    \E r \in Reqs, c \in Cids :
        /\ req[r].pc = "done" /\ req[r].op = "create" /\ req[r].result = "ok"
        /\ req[r].cid = c /\ Exists(c)
        /\ db[c].status = "pending" /\ Len(db[c].history) = 1
        /\ \/ db[c].category = "Electrical" /\ req[r].sent = <<"dadm">>
           \/ db[c].category = "Misc" /\ req[r].sent = <<>>
                /\ users["sadm"].status = "pending"

\* what the claim calls an invalid submission
InvalidSubmission(a) ==
    \/ a.images > 2
    \/ a.description > 1000
    \/ a.category \notin {"Electrical", "Civil", "Misc"}
    \/ a.subcategory \notin SubcategoriesOf(a.category)

\* C23: a submit with more than 2 images, a description over the length bound, a
\* category outside Electrical/Civil/Misc or a subcategory that is not one of the
\* category's subcategories fails with a validation error, stores no complaint
\* and sends no notification.
C23_InvalidSubmitRejected ==
    [][\A r \in Reqs :
        (Requested(r, "create") /\ req'[r] # req[r] /\ InvalidSubmission(req[r].args)) =>
            /\ Fails(r)
            /\ req'[r].result \in ValidationErrors \cup {SchemaError}
            /\ req'[r].sent = <<>>
            /\ db' = db]_vars

\* the stored complaints created in month t
StoredIn(t) == {c \in Cids : Exists(c) /\ db[c].createdAt = t}

\* CMP-YY-MM-NNNN for the n-th complaint of month t (t = 0 is December 2025)
ExpectedId(t, n) ==
    LET year == 2025 + ((11 + t) \div 12)
        month == ((11 + t) % 12) + 1
    IN  <<"CMP", <<(year \div 10) % 10, year % 10>>, <<month \div 10, month % 10>>,
          <<(n \div 1000) % 10, (n \div 100) % 10, (n \div 10) % 10, n % 10>>>>

\* C24: identifiers are sequential per calendar month: the n-th complaint stored
\* in a month gets CMP-YY-MM- followed by n on 4 digits, the first one 0001, and
\* the numbering starts again at 0001 in the next month.
C24_SequentialPerMonth ==
    [][\A r \in Reqs :
        (Commits(r) /\ req[r].op = "create") =>
            LET c == req[r].cid
                t == db'[c].createdAt
            IN  /\ t \in 0..now
                /\ db'[c].complaintId = ExpectedId(t, Cardinality(StoredIn(t)) + 1)
                /\ \A m \in 0..now :
                      {db'[x].complaintId : x \in {y \in Cids : db'[y] # NoDoc /\ db'[y].createdAt = m}}
                          = {ExpectedId(m, n) : n \in 1..Cardinality(StoredIn(m) \cup
                                                        (IF m = t THEN {c} ELSE {}))}]_vars

\* CMP-25-12-0001 was followed by CMP-25-12-0002 in the same month, or by
\* CMP-26-01-0001 in the next
C24_Witness ==
    \E c, d \in Cids :
        /\ Exists(c) /\ Exists(d)
        /\ db[c].complaintId = <<"CMP", <<2, 5>>, <<1, 2>>, <<0, 0, 0, 1>>>>
        /\ \/ db[d].complaintId = <<"CMP", <<2, 5>>, <<1, 2>>, <<0, 0, 0, 2>>>>
           \/ db[d].complaintId = <<"CMP", <<2, 6>>, <<0, 1>>, <<0, 0, 0, 1>>>>

\* C25: no two stored complaints share an identifier, also when two submissions
\* of the same month overlap and both derive their number from the same count,
\* and no operation changes the identifier of a stored complaint.
C25_IdentifierUniqueAndFixed ==
    [][/\ \A c, d \in Cids :
            (c # d /\ db'[c] # NoDoc /\ db'[d] # NoDoc)
                => db'[c].complaintId # db'[d].complaintId
       /\ \A c \in Cids :
            /\ db'[c] # NoDoc => db'[c].complaintId # NoComplaintId
            /\ Exists(c) => (db'[c] # NoDoc /\ db'[c].complaintId = db[c].complaintId)]_vars

\* a submission that had derived CMP-25-12-0001 from the same count as another
\* was refused on the unique index, and the complaint that got the identifier
\* keeps it after being assigned and resolved
C25_Witness ==
    \E q \in Reqs, c \in Cids :
        /\ req[q].pc = "done" /\ req[q].op = "create"
        /\ req[q].result = DuplicateKeyError
        /\ Exists(c) /\ db[c].status = "resolved"
        /\ db[c].complaintId = <<"CMP", <<2, 5>>, <<1, 2>>, <<0, 0, 0, 1>>>>

\* the roles each transition is meant for
PermittedRoles(op) ==
    CASE op = "assign"      -> {"superAdmin", "departmentAdmin"}
      [] op = "assignStaff" -> {"departmentAdmin"}
      [] op = "resolve"     -> {"maintenanceStaff", "departmentAdmin"}
      [] op = "feedback"    -> {"resident"}
      [] op = "finalize"    -> {"superAdmin"}
      [] OTHER              -> {"resident", "maintenanceStaff", "departmentAdmin", "superAdmin"}

\* C26: a transition request reaches its handler only when the caller's role is
\* one the transition is meant for (assignToAgency: superAdmin or departmentAdmin,
\* assignToStaff: departmentAdmin, resolve: maintenanceStaff or departmentAdmin,
\* submitFeedback: resident, finalize: superAdmin); a request answered Forbidden
\* came from another role, was stopped without a handler having run, and left
\* the store as it was.
C26_RoleGate ==
    [][\A r \in Reqs :
        /\ (req'[r].pc = "new" /\ req'[r] # req[r]) =>
              /\ req'[r].args.userId \in Users
              /\ users[req'[r].args.userId].role \in PermittedRoles(req'[r].op)
        /\ (req'[r] # req[r] /\ req'[r].result = "Forbidden") =>
              /\ Free(r)
              /\ users[req'[r].resp.by].role \notin PermittedRoles(req'[r].op)
              /\ db' = db /\ ver' = ver /\ wlock' = wlock]_vars

\* the departmentAdmin asked for the final resolution of an escalated complaint
\* and was answered Forbidden; the complaint is still escalated
C26_Witness ==
    \E r \in Reqs :
        /\ req[r].pc = "done" /\ req[r].op = "finalize"
        /\ req[r].result = "Forbidden" /\ req[r].resp.by = "dadm"
        /\ Exists(req[r].cid)
        /\ db[req[r].cid].status = "escalated"
        /\ db[req[r].cid].escalation.finalResolution = Null

\* the statuses of a history, in order
Statuses(h) == [i \in 1..Len(h) |-> h[i].status]

\* C27: a complaint closed by exactly four committed operations (submit,
\* assignToAgency, resolve, submitFeedback: no assignToStaff) has the history
\* pending, assigned, resolved, closed and closedAt set; a complaint in
\* finalResolution after exactly five (the low rating, then finalize) has the
\* history pending, assigned, resolved, escalated, finalResolution and closedAt set.
C27_HistoryOfThePaths ==
    \A c \in Cids :
        /\ (Exists(c) /\ db[c].status = "closed" /\ ver[c] = 4) =>
              /\ Statuses(db[c].history) = <<"pending", "assigned", "resolved", "closed">>
              /\ db[c].closedAt
        /\ (Exists(c) /\ db[c].status = "finalResolution" /\ ver[c] = 5) =>
              /\ Statuses(db[c].history)
                    = <<"pending", "assigned", "resolved", "escalated", "finalResolution">>
              /\ db[c].closedAt

\* a complaint reached finalResolution in five committed operations
C27_Witness ==
    \E c \in Cids :
        /\ Exists(c) /\ db[c].status = "finalResolution" /\ ver[c] = 5
        /\ Len(db[c].history) = 5
        /\ db[c].feedback.rating < 3

\* C28: when submitFeedback escalates, escalation.reason is the comment sent if
\* it is not empty and the default text otherwise, and that is what gets stored;
\* a finalize leaves escalation.reason and escalation.appellateAuthority as they
\* were.
C28_EscalationReason ==
    [][\A r \in Reqs :
        LET c == req[r].cid IN
        /\ (Requested(r, "feedback") /\ req'[r].pc = "run"
                /\ req'[r].local.status = "escalated") =>
              req'[r].local.escalation.reason =
                  (IF req[r].args.comment # "" THEN req[r].args.comment
                   ELSE "User not satisfied with resolution")
        /\ (Commits(r) /\ req[r].op = "feedback" /\ db'[c].status = "escalated") =>
              /\ db'[c].escalation.reason = req[r].local.escalation.reason
              /\ db'[c].escalation.reason \notin {"", Null}
        /\ (Commits(r) /\ req[r].op = "finalize") =>
              /\ db'[c].escalation.reason = db[c].escalation.reason
              /\ db'[c].escalation.appellateAuthority = db[c].escalation.appellateAuthority]_vars

\* a complaint escalated without a comment was finalized: the default reason and
\* the appellate authority are still there
C28_Witness ==
    \E c \in Cids :
        /\ Exists(c) /\ db[c].status = "finalResolution"
        /\ db[c].feedback.comment = ""
        /\ db[c].escalation.reason = "User not satisfied with resolution"
        /\ db[c].escalation.appellateAuthority = "sadm"
        /\ db[c].escalation.finalResolution # Null

\* C29: submitFeedback goes through only for the reporter: sent by a resident
\* who did not report the (resolved) complaint it is answered Forbidden and the
\* complaint is left as it was, so the feedback entry of a history is the
\* reporter's.
C29_FeedbackByReporterOnly ==
    [][\A r \in Reqs :
        LET c == req[r].cid IN
        /\ (/\ Requested(r, "feedback") /\ req'[r] # req[r]
            /\ Exists(c) /\ db[c].status = "resolved"
            /\ req[r].args.rating \in 1..5
            /\ req[r].args.userId # db[c].userId) =>
              /\ Fails(r)
              /\ req'[r].result = "Forbidden"
              /\ db' = db
        /\ (Commits(r) /\ req[r].op = "feedback") =>
              Last(db'[c].history).updatedBy = db'[c].userId]_vars

\* C30: a departmentAdmin gets assignToAgency, assignToStaff and resolve through
\* only on complaints of the admin's own department, and a maintenanceStaff gets
\* resolve through only on a complaint assigned to that staff member (as
\* assignedStaff or assignedAgency); on any other complaint the request is
\* refused and the complaint is left as it was.
C30_DepartmentAndAssignee ==
    [][\A r \in Reqs :
        LET c == req[r].cid
            u == req[r].args.userId
        IN
        (/\ req[r].pc = "new" /\ req[r].op \in {"assign", "assignStaff", "resolve"}
         /\ req'[r] # req[r] /\ Exists(c)
         /\ \/ users[u].role = "departmentAdmin" /\ users[u].department # db[c].category
            \/ /\ users[u].role = "maintenanceStaff" /\ req[r].op = "resolve"
               /\ u \notin {db[c].assignedStaff, db[c].assignedAgency}) =>
            /\ Fails(r)
            /\ db' = db]_vars

\* C31: a submit fails only on invalid input: with valid input (at most 2 images,
\* a description within the bound, a category and one of its subcategories) it
\* never ends in an error, also while another valid submission of the same month
\* is in flight, and what it commits has an identifier no other complaint has.
C31_ValidSubmitSucceeds ==
    [][\A r \in Reqs :
        /\ (Requested(r, "create") /\ ~InvalidSubmission(req[r].args)
                /\ req[r].args.description > 0) => ~Fails(r)
        /\ (req[r].pc = "run" /\ req[r].op = "create") => ~Fails(r)]_vars

\* C32: every stored complaint has a history that is not empty, starts with a
\* pending entry and ends with an entry whose status is the complaint's current
\* status (an assignToStaff entry repeats the status the complaint has).
C32_HistoryMatchesStatus ==
    \A c \in Cids :
        Exists(c) =>
            /\ Len(db[c].history) >= 1
            /\ db[c].history[1].status = "pending"
            /\ Last(db[c].history).status = db[c].status

\* a resolved complaint whose last history entry is an assignToStaff entry
C32_Witness ==
    \E c \in Cids :
        /\ Exists(c) /\ db[c].status = "resolved"
        /\ EntryOp(Last(db[c].history)) = "assignStaff"
        /\ Last(db[c].history).status = "resolved"
        /\ Len(db[c].history) >= 4

\* the complaints a stats request matches: those of the filters its controller
\* handed to the service
Matching(resp) ==
    LET f == GetComplaintStatsFilters(resp.by, resp.query) IN
    {c \in Cids :
        /\ Exists(c)
        /\ (f.userId # Null) => (db[c].userId = f.userId)
        /\ (f.category # Null) => (db[c].category = f.category)}

C34_DeliveredAtMostOnce ==
    /\ fanouts <= 1
    /\ \A p \in Senders :
          sender[p].err = "Broadcast has already been sent" => broadcast.isSent

\* the stored responses of a user
ResponsesOf(rs, userId) == {i \in 1..Len(rs) : rs[i].userId = userId}

\* C35: each user has at most one stored response to the poll, whatever the
\* interleaving of submitPollResponse calls (two calls of one user in progress
\* together included), and a call that looks for the user's response once it
\* is stored fails with "You have already responded to this poll".
C35_OneResponsePerUser ==
    [][\A c \in Calls :
        /\ Cardinality(ResponsesOf(responses', CallUser(c))) <= 1
        /\ (/\ call[c].pc = "findOne"
            /\ ResponsesOf(responses, CallUser(c)) # {}
            /\ call'[c] # call[c])
               => call'[c].err = "You have already responded to this poll"]_vars

\* a call was refused because its user's response is stored
C35_Witness ==
    \E c \in Calls :
        /\ call[c].err = "You have already responded to this poll"
        /\ Cardinality(ResponsesOf(responses, CallUser(c))) = 1

\* the stored responses that selected the option
Selecting(o) ==
    {i \in 1..Len(responses) : Occurrences(responses[i].selectedOptions, o) > 0}

\* C36: the poll's counters match its stored responses -- once every stored
\* response has had its counters saved, totalResponses is the number of
\* stored responses and each option's count is the number of responses that
\* selected the option.
C36_CountersMatchResponses ==
    (\A c \in Calls : call[c].pc # "save") =>
        /\ poll.totalResponses = Len(responses)
        /\ \A o \in PollOptions : poll.options[o] = Cardinality(Selecting(o))

\* C37: a poll that becomes active has its target users notified once -- when
\* createPoll creates it active, and when updatePoll changes its status from
\* another status to active.
C37_ActivationNotifies ==
    [][(poll.status # "active" /\ poll'.status = "active")
          => notified' = notified + 1]_vars

\* C38: check-in and check-out respect the lifecycle of a visitor request -- a
\* visitor is checked in only from status approved and checked out only from
\* status checked-in, and once a request has been cancelled, rejected or
\* checked out no later approve, reject, cancel, check-in or check-out call
\* brings it to status checked-in.
C38_CheckInLifecycle ==
    \A j \in 1..Len(visits) :
        /\ (visits[j].status = "checked-in" /\ visits[j].from # "checked-in")
               => visits[j].from = "approved"
        /\ (visits[j].status = "checked-out" /\ visits[j].from # "checked-out")
               => visits[j].from = "checked-in"
        /\ \A i \in 1..(j - 1) :
              visits[i].status \in {"cancelled", "rejected", "checked-out"}
                 => visits[j].status # "checked-in"

====
